---- MODULE Spec2Model ----
(***************************************************************************)
(* Versioned backup store of configrep: content hashing, JSON-patch delta  *)
(* encoding (helpers/diff.ts over fast-json-patch's compare), replay of a  *)
(* file's version history, the backup run, alone and beside another, and  *)
(* the restore (helpers/backup.ts), the encryption envelope                *)
(* (helpers/crypto.ts), and the password dialogue (helpers/prompt.ts).     *)
(*                                                                         *)
(* A JavaScript value is a record [t, s, c]: t is its type, s the text of  *)
(* a primitive, c the own properties of an object or array in property     *)
(* order, each [k, v].  A string (a key, a path) that the code splits or   *)
(* escapes is a sequence of one-character strings.  Strings held as        *)
(* primitives are one character long.                                      *)
(***************************************************************************)
EXTENDS Integers, Sequences, FiniteSets, TLC

VARIABLES
  fs,         \* the directory as the last run found it: per file, its parse
  disk,       \* the document at the output path
  gitignore,  \* whether .gitignore names the backup file
  manifest,   \* the manifest the last run held in memory when it returned
  options,    \* the BackupOptions of the last run
  result,     \* the BackupResult of the last run
  clock,      \* the wall clock, in runs
  snapshots,  \* per file id, the currentContent of each persisted version
  oldData,    \* diff round trip: the old value
  newData,    \* diff round trip: the new value
  patches,    \* diff round trip: what generateJsonPatch returned
  patched,    \* diff round trip: what applyPatches returned
  pc,         \* position in the round trip at hand
  opened,         \* what loadBackup returned or that it threw
  record,         \* the record given to reconstructAtVersion
  target,         \* the version asked of reconstructAtVersion
  reconstructed,  \* what reconstructAtVersion returned or that it threw
  restoration,    \* the last call of restoreFromBackup: its arguments and result
  output,         \* the file restoreFromBackup wrote, if it wrote one
  plain,      \* the manifest given to encryptData
  secret,     \* the password given to encryptData
  envelope,   \* the EncryptedBackup at hand
  tamper,     \* what was changed in the envelope since encryptData returned it
  attempt,    \* the password given to decryptData
  outcome,    \* what decryptData returned or threw
  trace,      \* the cryptographic steps of the last call, in order
  derived,    \* the passwords pbkdf2Sync has been run on
  rounds,     \* the calls of encryptData so far
  runs,       \* per concurrent process, where its run of createBackup stands
  session     \* the dialogue of promptPassword: its prompts and the entries made

vars == <<fs, disk, gitignore, manifest, options, result, clock, snapshots,
          oldData, newData, patches, patched, pc,
          opened, record, target, reconstructed, restoration, output,
          plain, secret, envelope, tamper, attempt, outcome, trace, derived, rounds,
          runs, session>>

backupVars == <<fs, disk, gitignore, manifest, options, result, clock, snapshots>>

diffVars == <<oldData, newData, patches, patched, pc>>

restoreVars == <<opened, record, target, reconstructed, restoration, output>>

cryptoVars == <<plain, secret, envelope, tamper, attempt, outcome, trace, derived, rounds>>

raceVars == <<runs>>

promptVars == <<session>>

-----------------------------------------------------------------------------
(* JavaScript values *)

Str(x) == [t |-> "string", s |-> x, c |-> <<>>]

Num(x) == [t |-> "number", s |-> x, c |-> <<>>]

Null == [t |-> "null", s |-> "", c |-> <<>>]

Bool(b) == [t |-> "boolean", s |-> IF b THEN "true" ELSE "false", c |-> <<>>]

Undefined == [t |-> "undefined", s |-> "", c |-> <<>>]

\* an array index that holds no element (left by delete, or by a write past the end)
Hole == [t |-> "hole", s |-> "", c |-> <<>>]

Prop(k, v) == [k |-> k, v |-> v]

Obj(props) == [t |-> "object", s |-> "", c |-> props]

Digits == <<"0", "1", "2", "3", "4", "5", "6", "7", "8", "9">>

IsIndex(k) == Len(k) = 1 /\ \E d \in 1..Len(Digits) : Digits[d] = k[1]

IndexOf(k) == (CHOOSE d \in 1..Len(Digits) : Digits[d] = k[1]) - 1

IndexKey(i) == <<Digits[i + 1]>>

Arr(elems) ==
  [t |-> "array", s |-> "",
   c |-> [i \in 1..Len(elems) |-> Prop(IndexKey(i - 1), elems[i])]]

IsUndefined(v) == v.t \in {"undefined", "hole"}

\* typeof v === 'object' && v !== null
IsObject(v) == v.t \in {"object", "array"}

IsArray(v) == v.t = "array"

Truthy(v) ==
  CASE v.t \in {"object", "array"} -> TRUE
    [] v.t = "boolean" -> v.s = "true"
    [] v.t = "string" -> v.s # ""
    [] v.t = "number" -> v.s # "0"
    [] OTHER -> FALSE

IsIndexProp(p) == IsIndex(p.k)

\* array.length
Length(v) == Len(SelectSeq(v.c, IsIndexProp))

PropAt(v, k) == CHOOSE i \in 1..Len(v.c) : v.c[i].k = k

HasEntry(v, k) == \E i \in 1..Len(v.c) : v.c[i].k = k

\* k in v, Object.prototype.hasOwnProperty.call(v, k) on an object or array
HasProp(v, k) == HasEntry(v, k) /\ v.c[PropAt(v, k)].v.t # "hole"

\* hasOwnProperty on any value: a string owns its character indices
hasOwnProperty(v, k) ==
  CASE IsObject(v) -> HasProp(v, k)
    [] v.t = "string" -> k = IndexKey(0)
    [] OTHER -> FALSE

\* v[k]; the caller has excluded null and undefined, on which it throws
GetProp(v, k) ==
  CASE IsObject(v) ->
         IF HasProp(v, k) THEN v.c[PropAt(v, k)].v ELSE Undefined
    [] v.t = "string" -> IF k = IndexKey(0) THEN v ELSE Undefined
    [] OTHER -> Undefined

\* where a new property goes: integer keys first and ascending, then the
\* others in insertion order; on an array the index slots come before the rest
InsertAt(v, k) ==
  IF IsIndex(k)
  THEN Len(SelectSeq(v.c, LAMBDA p : IsIndex(p.k) /\ IndexOf(p.k) < IndexOf(k))) + 1
  ELSE Len(v.c) + 1

Insert(seq, i, x) == SubSeq(seq, 1, i - 1) \o <<x>> \o SubSeq(seq, i, Len(seq))

\* v[k] = x on an object or array
SetProp(v, k, x) ==
  IF HasEntry(v, k)
  THEN [v EXCEPT !.c[PropAt(v, k)].v = x]
  ELSE IF IsArray(v) /\ IsIndex(k)
  THEN LET n == Length(v)
           holes == [i \in 1..(IndexOf(k) - n) |-> Prop(IndexKey(n + i - 1), Hole)]
       IN [v EXCEPT !.c = SubSeq(v.c, 1, n) \o holes \o <<Prop(k, x)>>
                            \o SubSeq(v.c, n + 1, Len(v.c))]
  ELSE [v EXCEPT !.c = Insert(v.c, InsertAt(v, k), Prop(k, x))]

\* delete v[k] on an object or array: an array keeps its length
DeleteProp(v, k) ==
  IF ~HasEntry(v, k) THEN v
  ELSE IF IsArray(v) /\ IsIndex(k)
  THEN [v EXCEPT !.c[PropAt(v, k)].v = Hole]
  ELSE [v EXCEPT !.c = SubSeq(v.c, 1, PropAt(v, k) - 1)
                         \o SubSeq(v.c, PropAt(v, k) + 1, Len(v.c))]

\* the value a chain of property reads reaches from root
RECURSIVE GetPath(_, _)
GetPath(root, keys) ==
  IF keys = <<>> THEN root
  ELSE GetPath(GetProp(root, Head(keys)), Tail(keys))

\* root after the value a chain of property reads reaches is mutated to sub
RECURSIVE SetPath(_, _, _)
SetPath(root, keys, sub) ==
  IF keys = <<>> THEN sub
  ELSE SetProp(root, Head(keys), SetPath(GetProp(root, Head(keys)), Tail(keys), sub))

-----------------------------------------------------------------------------
(* JSON text *)

IsDefinedProp(p) == ~IsUndefined(p.v)

\* JSON.parse(JSON.stringify(v)) of a defined value: an object loses its
\* undefined properties, an array keeps its index slots with null for the
\* undefined ones and loses every other property
RECURSIVE JsonClone(_)
JsonClone(v) ==
  CASE v.t = "object" ->
         LET kept == SelectSeq(v.c, IsDefinedProp)
         IN Obj([i \in 1..Len(kept) |-> Prop(kept[i].k, JsonClone(kept[i].v))])
    [] v.t = "array" ->
         LET slots == SelectSeq(v.c, IsIndexProp)
         IN [v EXCEPT !.c = [i \in 1..Len(slots) |->
                               Prop(slots[i].k,
                                    IF IsUndefined(slots[i].v) THEN Null
                                    ELSE JsonClone(slots[i].v))]]
    [] OTHER -> v

\* JSON.stringify(v) of a defined value, as the sequence of its tokens
RECURSIVE Stringify(_)
RECURSIVE StringifyProps(_, _, _)
StringifyProps(props, i, isArray) ==
  IF i > Len(props) THEN <<>>
  ELSE (IF i > 1 THEN <<",">> ELSE <<>>)
       \o (IF isArray THEN <<>> ELSE <<"\"">> \o props[i].k \o <<"\"", ":">>)
       \o Stringify(props[i].v)
       \o StringifyProps(props, i + 1, isArray)

Stringify(v) ==
  LET w == JsonClone(v)
  IN CASE w.t = "object" -> <<"{">> \o StringifyProps(w.c, 1, FALSE) \o <<"}">>
       [] w.t = "array" -> <<"[">> \o StringifyProps(w.c, 1, TRUE) \o <<"]">>
       [] w.t = "string" -> <<"\"", w.s, "\"">>
       [] w.t \in {"number", "boolean"} -> <<w.s>>
       [] OTHER -> <<"null">>

\* expect(a).toEqual(b): recursive equality that ignores property order and
\* undefined properties
DefinedKeys(v) == {v.c[i].k : i \in {j \in 1..Len(v.c) : ~IsUndefined(v.c[j].v)}}

RECURSIVE DeepEqual(_, _)
DeepEqual(a, b) ==
  IF IsUndefined(a) \/ IsUndefined(b) THEN IsUndefined(a) /\ IsUndefined(b)
  ELSE IF a.t # b.t THEN FALSE
  ELSE IF IsObject(a)
  THEN /\ IsArray(a) => Length(a) = Length(b)
       /\ DefinedKeys(a) = DefinedKeys(b)
       /\ \A k \in DefinedKeys(a) : DeepEqual(GetProp(a, k), GetProp(b, k))
  ELSE a.s = b.s

-----------------------------------------------------------------------------
(* helpers/backup.ts: hashContent *)

hashContentUnordered(content) ==
  IF content.t = "string" THEN <<content.s>>
  ELSE <<{content.c[i] : i \in 1..Len(content.c)}>>

\* SHA-256 is taken to be collision free: a digest stands for the text hashed
hashContent(content) ==
  IF content.t = "string" THEN <<content.s>> ELSE Stringify(content)

-----------------------------------------------------------------------------
(* JSON pointers *)

\* str.split('/')
RECURSIVE Split(_)
Split(str) ==
  IF \A i \in 1..Len(str) : str[i] # "/" THEN <<str>>
  ELSE LET i == CHOOSE j \in 1..Len(str) :
                  str[j] = "/" /\ \A h \in 1..(j - 1) : str[h] # "/"
       IN <<SubSeq(str, 1, i - 1)>> \o Split(SubSeq(str, i + 1, Len(str)))

\* path.split('/').slice(1)
PathParts(path) == Tail(Split(path))

\* fast-json-patch: '~' becomes '~0' and '/' becomes '~1'
RECURSIVE escapePathComponent(_)
escapePathComponent(key) ==
  IF key = <<>> THEN <<>>
  ELSE (CASE Head(key) = "~" -> <<"~", "0">>
          [] Head(key) = "/" -> <<"~", "1">>
          [] OTHER -> <<Head(key)>>)
       \o escapePathComponent(Tail(key))

-----------------------------------------------------------------------------
(* fast-json-patch: compare, as helpers/diff.ts calls it *)

\* _objectKeys: every index of an array (holes too), the keys of an object,
\* the character indices of a string, nothing for a number
_objectKeys(v) ==
  CASE v.t = "array" -> [i \in 1..Length(v) |-> IndexKey(i - 1)]
    [] v.t = "object" -> [i \in 1..Len(v.c) |-> v.c[i].k]
    [] v.t = "string" -> <<IndexKey(0)>>
    [] OTHER -> <<>>

\* _deepClone
_deepClone(v) ==
  CASE IsObject(v) -> JsonClone(v)
    [] IsUndefined(v) -> Null
    [] OTHER -> v

\* a === b: two containers compared here are never the same reference
StrictEqual(a, b) ==
  IF IsObject(a) \/ IsObject(b) THEN FALSE
  ELSE IF IsUndefined(a) \/ IsUndefined(b) THEN IsUndefined(a) /\ IsUndefined(b)
  ELSE a = b

Operation(op, path, value) == [op |-> op, path |-> path, value |-> value]

\* the old key is still a property of obj (and not one set to undefined)
KeyKept(mirror, obj, key) ==
  /\ hasOwnProperty(obj, key)
  /\ ~(/\ IsUndefined(GetProp(obj, key))
       /\ ~IsUndefined(GetProp(mirror, key))
       /\ ~IsArray(obj))

RECURSIVE _generate(_, _, _)
RECURSIVE OldKeys(_, _, _, _)
\* the first loop of _generate, over the old keys from the last to the first
OldKeys(mirror, obj, path, t) ==
  IF t = 0 THEN <<>>
  ELSE LET key == _objectKeys(mirror)[t]
           oldVal == GetProp(mirror, key)
           newVal == GetProp(obj, key)
           at == path \o <<"/">> \o escapePathComponent(key)
           here ==
             IF KeyKept(mirror, obj, key)
             THEN IF IsObject(oldVal) /\ IsObject(newVal)
                     /\ IsArray(oldVal) = IsArray(newVal)
                  THEN _generate(oldVal, newVal, at)
                  ELSE IF ~StrictEqual(oldVal, newVal)
                  THEN <<Operation("replace", at, _deepClone(newVal))>>
                  ELSE <<>>
             ELSE IF IsArray(mirror) = IsArray(obj)
             THEN <<Operation("remove", at, Undefined)>>
             ELSE <<Operation("replace", path, obj)>>
       IN here \o OldKeys(mirror, obj, path, t - 1)

\* the second loop of _generate, over the new keys from the first to the last
RECURSIVE NewKeys(_, _, _, _)
NewKeys(mirror, obj, path, t) ==
  IF t > Len(_objectKeys(obj)) THEN <<>>
  ELSE LET key == _objectKeys(obj)[t]
       IN (IF ~hasOwnProperty(mirror, key) /\ ~IsUndefined(GetProp(obj, key))
           THEN <<Operation("add", path \o <<"/">> \o escapePathComponent(key),
                            _deepClone(GetProp(obj, key)))>>
           ELSE <<>>)
          \o NewKeys(mirror, obj, path, t + 1)

_generate(mirror, obj, path) ==
  IF ~IsObject(mirror) /\ ~IsObject(obj) /\ StrictEqual(mirror, obj) THEN <<>>
  ELSE LET oldKeys == _objectKeys(mirror)
           deleted == \E t \in 1..Len(oldKeys) :
                        /\ ~KeyKept(mirror, obj, oldKeys[t])
                        /\ IsArray(mirror) = IsArray(obj)
       IN OldKeys(mirror, obj, path, Len(oldKeys))
          \o (IF ~deleted /\ Len(_objectKeys(obj)) = Len(oldKeys) THEN <<>>
              ELSE NewKeys(mirror, obj, path, 1))

\* obj.toJSON and Object.keys throw a TypeError on null and undefined
compareThrows(tree1, tree2) ==
  /\ ~(~IsObject(tree1) /\ ~IsObject(tree2) /\ StrictEqual(tree1, tree2))
  /\ \/ tree1.t \in {"null", "undefined", "hole"}
     \/ tree2.t \in {"null", "undefined", "hole"}

compare(tree1, tree2) == _generate(tree1, tree2, <<>>)

-----------------------------------------------------------------------------
(* helpers/diff.ts *)

VersionDelta(op, path, value, oldValue) ==
  [op |-> op, path |-> path, value |-> value, oldValue |-> oldValue]

\* the walk that looks the replaced value up in oldData, by the raw path parts
RECURSIVE OldValueAt(_, _)
OldValueAt(current, parts) ==
  IF parts = <<>> THEN current
  ELSE OldValueAt(IF Truthy(current) /\ IsObject(current) /\ Head(parts) # <<>>
                  THEN GetProp(current, Head(parts))
                  ELSE current,
                  Tail(parts))

ToDelta(oldData_, patch) ==
  VersionDelta(patch.op, patch.path, patch.value,
               IF patch.op = "replace" /\ Truthy(oldData_)
               THEN OldValueAt(oldData_, PathParts(patch.path))
               ELSE Undefined)

generateJsonPatchThrows(oldData_, newData_) == compareThrows(oldData_, newData_)

generateJsonPatch(oldData_, newData_) ==
  LET ops == compare(oldData_, newData_)
  IN [i \in 1..Len(ops) |-> ToDelta(oldData_, ops[i])]

\* the loop of the add/replace branch over pathParts[0 .. length-2]: missing
\* containers are created as {}; `part in current` throws on a primitive and
\* the patch is abandoned with what was created so far
RECURSIVE AddWalk(_, _, _, _)
AddWalk(result_, cur, parts, i) ==
  IF i > Len(parts) - 1 THEN [result |-> result_, cur |-> cur, threw |-> FALSE]
  ELSE LET part == parts[i]
           current == GetPath(result_, cur)
       IN IF part = <<>> THEN AddWalk(result_, cur, parts, i + 1)
          ELSE IF ~IsObject(current)
          THEN [result |-> result_, cur |-> cur, threw |-> TRUE]
          ELSE AddWalk(IF HasProp(current, part) THEN result_
                       ELSE SetPath(result_, cur, SetProp(current, part, Obj(<<>>))),
                       Append(cur, part), parts, i + 1)

\* the loop of the remove branch: it breaks at an empty or absent part and
\* leaves current where it stood
RECURSIVE RemoveWalk(_, _, _, _)
RemoveWalk(result_, cur, parts, i) ==
  IF i > Len(parts) - 1 THEN [cur |-> cur, threw |-> FALSE]
  ELSE LET part == parts[i]
           current == GetPath(result_, cur)
       IN IF part = <<>> THEN [cur |-> cur, threw |-> FALSE]
          ELSE IF ~IsObject(current) THEN [cur |-> cur, threw |-> TRUE]
          ELSE IF ~HasProp(current, part) THEN [cur |-> cur, threw |-> FALSE]
          ELSE RemoveWalk(result_, Append(cur, part), parts, i + 1)

LastPart(parts) == IF parts = <<>> THEN <<>> ELSE parts[Len(parts)]

WrittenOrOld(patch) == IF IsUndefined(patch.oldValue) THEN patch.value ELSE patch.oldValue

\* current[lastPart] = patch.value: the only field of the patch that is written
Written(patch) == patch.value

\* one round of the loop of applyPatches, with its try and catch
ApplyPatch(result_, patch) ==
  LET parts == PathParts(patch.path)
      lastPart == LastPart(parts)
  IN IF patch.op \in {"add", "replace"}
     THEN LET w == AddWalk(result_, <<>>, parts, 1)
              current == GetPath(w.result, w.cur)
          IN IF ~w.threw /\ lastPart # <<>> /\ IsObject(current)
             THEN SetPath(w.result, w.cur, SetProp(current, lastPart, Written(patch)))
             ELSE w.result
     ELSE IF patch.op = "remove"
     THEN LET w == RemoveWalk(result_, <<>>, parts, 1)
              current == GetPath(result_, w.cur)
          IN IF ~w.threw /\ IsObject(current) /\ lastPart # <<>>
                /\ HasProp(current, lastPart)
             THEN SetPath(result_, w.cur, DeleteProp(current, lastPart))
             ELSE result_
     ELSE result_

RECURSIVE ApplyFrom(_, _, _)
ApplyFrom(result_, deltas, i) ==
  IF i > Len(deltas) THEN result_
  ELSE ApplyFrom(ApplyPatch(result_, deltas[i]), deltas, i + 1)

\* JSON.parse(JSON.stringify(undefined)) throws outside the try
applyPatchesThrows(data) == IsUndefined(data)

applyPatches(data, deltas) == ApplyFrom(JsonClone(data), deltas, 1)

\* whether the body of the try throws for this patch: `part in current` on a
\* primitive or null, or the assignment to a property of one
PatchBodyThrows(result_, patch) ==
  LET parts == PathParts(patch.path)
  IN IF patch.op \in {"add", "replace"}
     THEN LET w == AddWalk(result_, <<>>, parts, 1)
          IN w.threw \/ (LastPart(parts) # <<>> /\ ~IsObject(GetPath(w.result, w.cur)))
     ELSE IF patch.op = "remove"
     THEN RemoveWalk(result_, <<>>, parts, 1).threw
     ELSE FALSE

EscapesUncaught(result_, patch) == PatchBodyThrows(result_, patch)

\* the catch around each patch: what the body throws is logged, not thrown on
Escapes(result_, patch) == FALSE

ClonedByReference(data) == [value |-> data, shared |-> TRUE]

\* let result = JSON.parse(JSON.stringify(data)): a value that shares nothing
\* with data
Cloned(data) == [value |-> JsonClone(data), shared |-> FALSE]

\* a call of applyPatches: whether it throws, what it returns, and what its
\* argument holds afterwards (every write goes through result)
applyPatchesEffect(data, deltas) ==
  LET start == Cloned(data)
      returned == ApplyFrom(start.value, deltas, 1)
  IN [threw |-> \/ applyPatchesThrows(data)
                \/ \E i \in 1..Len(deltas) :
                     Escapes(ApplyFrom(start.value, SubSeq(deltas, 1, i - 1), 1),
                             deltas[i]),
      value |-> returned,
      data |-> IF start.shared THEN returned ELSE data]

-----------------------------------------------------------------------------
(* helpers/backup.ts: the manifest *)

\* an absent optional field holding a list is <<>>, a present one <<list>>
BackupVersion(versionNumber, timestamp, hash, content, changes) ==
  [versionNumber |-> versionNumber, timestamp |-> timestamp, hash |-> hash,
   content |-> content, changes |-> changes]

FileIdOfType(configFile) == hashContent(Str(configFile.type))

\* const fileId = hashContent(configFile.relativePath)
FileId(configFile) == hashContent(Str(configFile.relativePath))

BackupFileRecord(configFile, versions) ==
  [id |-> FileId(configFile),
   originalPath |-> configFile.relativePath,
   fileName |-> configFile.name,
   fileType |-> configFile.type,
   versions |-> versions]

BackupManifest(created, lastModified, files) ==
  [version |-> "1.0.0", created |-> created, lastModified |-> lastModified,
   files |-> files]

\* no manifest: what loadBackup returns as null
NoManifest == [version |-> "", created |-> 0, lastModified |-> 0, files |-> <<>>]

BackupResult(success, filesProcessed, changesDetected, encrypted, error) ==
  [success |-> success, filesProcessed |-> filesProcessed,
   changesDetected |-> changesDetected, encrypted |-> encrypted, error |-> error]

JsonCloneOptional(v) == IF IsUndefined(v) THEN Undefined ELSE JsonClone(v)

DeltaJson(d) ==
  VersionDelta(d.op, d.path, JsonCloneOptional(d.value), JsonCloneOptional(d.oldValue))

VersionJson(v) ==
  BackupVersion(v.versionNumber, v.timestamp, v.hash, JsonCloneOptional(v.content),
                [c \in 1..Len(v.changes) |->
                   [i \in 1..Len(v.changes[c]) |-> DeltaJson(v.changes[c][i])]])

\* the manifest as JSON.parse reads back what JSON.stringify wrote
ManifestJson(m) ==
  [m EXCEPT !.files =
     [f \in 1..Len(m.files) |->
        [m.files[f] EXCEPT !.versions =
           [v \in 1..Len(m.files[f].versions) |-> VersionJson(m.files[f].versions[v])]]]]

\* saveBackup: the document written at the output path
saveBackup(m) == [kind |-> "manifest", data |-> ManifestJson(m)]

NoDocument == [kind |-> "absent", data |-> NoManifest]

loadBackupThrowsNever(document) == FALSE

\* JSON.parse throws on a text that is not JSON, and if (data.encrypted) throw:
\* neither error is ENOENT and both are thrown on
loadBackupThrows(document) == document.kind \in {"encrypted", "garbage"}

\* the message of the error loadBackup throws on
LoadError(document) ==
  IF document.kind = "encrypted"
  THEN "Backup is encrypted. Use decryption functionality to load."
  ELSE "Unexpected token in JSON"

loadBackupAfresh(document) == NoManifest

\* loadBackup: null when the path does not exist
loadBackup(document) == IF document.kind = "manifest" THEN document.data ELSE NoManifest

Thrown == [threw |-> TRUE, value |-> Undefined]

Returned(v) == [threw |-> FALSE, value |-> v]

\* the replay loop of reconstructAtVersion over versions[1 .. targetVersion-1]
RECURSIVE Replay(_, _, _, _)
Replay(result_, versions, i, targetVersion) ==
  IF i >= targetVersion THEN result_
  ELSE Replay(IF Len(versions[i + 1].changes) = 1
              THEN applyPatches(result_, versions[i + 1].changes[1])
              ELSE result_,
              versions, i + 1, targetVersion)

reconstructAtVersionUnchecked(fileRecord, targetVersion) ==
  IF targetVersion < 1 \/ targetVersion > Len(fileRecord.versions)
  THEN Returned(Undefined)
  ELSE Returned(Replay(fileRecord.versions[1].content, fileRecord.versions, 1,
                       targetVersion))

reconstructAtVersion(fileRecord, targetVersion) ==
  LET versions == fileRecord.versions
      found == {i \in 1..Len(versions) : versions[i].versionNumber = targetVersion}
      version == versions[CHOOSE i \in found : \A j \in found : i <= j]
  IN IF targetVersion < 1 \/ targetVersion > Len(versions) THEN Thrown
     ELSE IF found = {} THEN Thrown
     ELSE IF ~IsUndefined(version.content) THEN Returned(version.content)
     ELSE IF IsUndefined(versions[1].content) THEN Thrown
     ELSE Returned(Replay(versions[1].content, versions, 1, targetVersion))

-----------------------------------------------------------------------------
(* helpers/backup.ts: createBackup *)

\* entries.reduce: acc[entry.key] = entry.rawValue ?? entry.value
RECURSIVE Reduce(_, _, _)
Reduce(acc, entries, i) ==
  IF i > Len(entries) THEN acc
  ELSE Reduce(SetProp(acc, entries[i].key,
                      IF ~IsUndefined(entries[i].rawValue) THEN entries[i].rawValue
                      ELSE entries[i].value),
              entries, i + 1)

CurrentContent(parsed) == Reduce(Obj(<<>>), parsed.entries, 1)

SkippedNever(parsed) == FALSE

\* the file is skipped by the loop
Skipped(parsed) == parsed.error \/ Len(parsed.entries) = 0

FindRecord(files, fileId) ==
  LET at == {i \in 1..Len(files) : files[i].id = fileId}
  IN IF at = {} THEN 0 ELSE CHOOSE i \in at : \A j \in at : i <= j

VersionNumberFromZero(versions) == Len(versions)

VersionNumber(versions) == Len(versions) + 1

FirstVersionAlways(fileRecord) == TRUE

\* fileRecord.versions.length === 0: the version carries the full content
FirstVersion(fileRecord) == Len(fileRecord.versions) = 0

\* the new version of a file whose hash differs; threw when reconstructing the
\* last content or diffing against it throws
NewVersion(fileRecord, currentContent, currentHash, now) ==
  IF FirstVersion(fileRecord)
  THEN Returned(BackupVersion(VersionNumber(fileRecord.versions), now, currentHash,
                              currentContent, <<>>))
  ELSE LET lastContent == reconstructAtVersion(fileRecord, Len(fileRecord.versions))
       IN IF lastContent.threw THEN Thrown
          ELSE IF generateJsonPatchThrows(lastContent.value, currentContent) THEN Thrown
          ELSE Returned(BackupVersion(VersionNumber(fileRecord.versions), now,
                                      currentHash, Undefined,
                                      <<generateJsonPatch(lastContent.value,
                                                          currentContent)>>))

HashDiffersAlways(fileRecord, currentHash) == TRUE

HashDiffersNever(fileRecord, currentHash) == Len(fileRecord.versions) = 0

\* whether the loop appends a version for the file
HashDiffers(fileRecord, currentHash) ==
  \/ Len(fileRecord.versions) = 0
  \/ fileRecord.versions[Len(fileRecord.versions)].hash # currentHash

\* one round of the loop over configFiles, with its try and catch;
\* st is [manifest, changesDetected]
ProcessFile(st, configFile, parsed, now) ==
  IF Skipped(parsed) THEN st
  ELSE LET fileId == FileId(configFile)
           files == IF FindRecord(st.manifest.files, fileId) = 0
                    THEN Append(st.manifest.files, BackupFileRecord(configFile, <<>>))
                    ELSE st.manifest.files
           at == FindRecord(files, fileId)
           currentContent == CurrentContent(parsed)
           currentHash == hashContent(currentContent)
           newVersion == NewVersion(files[at], currentContent, currentHash, now)
       IN IF ~HashDiffers(files[at], currentHash)
          THEN [st EXCEPT !.manifest.files = files]
          ELSE [manifest |->
                  [st.manifest EXCEPT !.files =
                     IF newVersion.threw THEN files
                     ELSE [files EXCEPT ![at].versions = Append(@, newVersion.value)]],
                changesDetected |-> st.changesDetected + 1]

RECURSIVE ProcessFiles(_, _, _, _)
ProcessFiles(st, configFiles, i, now) ==
  IF i > Len(configFiles) THEN st
  ELSE ProcessFiles(ProcessFile(st, configFiles[i].file, configFiles[i].parsed, now),
                    configFiles, i + 1, now)

FilesProcessed(configFiles) == Len(configFiles)

Encrypted(opts) == FALSE

\* what saveBackup is given to write
Persisted(m, opts) == saveBackup(m)

-----------------------------------------------------------------------------
(* the directory a run finds: discovery and the parser are collaborators,   *)
(* their results are the run's input                                       *)

MaxRuns == 2

ConfigEntry(key, value, rawValue) == [key |-> key, value |-> value, rawValue |-> rawValue]

ConfigFile(relativePath, name, type) ==
  [relativePath |-> relativePath, name |-> name, type |-> type]

\* the files discovery can find, in its order
TrackedFiles ==
  <<ConfigFile(".env", ".env", "env"), ConfigFile("config.json", "config.json", "json")>>

NotFound == [found |-> FALSE, error |-> FALSE, entries |-> <<>>]

ParseError == [found |-> TRUE, error |-> TRUE, entries |-> <<>>]

Parsed(entries) == [found |-> TRUE, error |-> FALSE, entries |-> entries]

\* parseEnvFile: entries carry no rawValue
EnvAB == <<ConfigEntry(<<"A">>, Str("x"), Undefined), ConfigEntry(<<"B">>, Str("y"), Undefined)>>

EnvBA == <<ConfigEntry(<<"B">>, Str("y"), Undefined), ConfigEntry(<<"A">>, Str("x"), Undefined)>>

EnvParses == {NotFound, Parsed(<<>>), Parsed(EnvAB), Parsed(EnvBA)}

\* flattenObject of {"c": {"p": 1}, "l": [1, 2]}
JsonLong ==
  <<ConfigEntry(<<"c">>, Str("{ p: 1 }"), Obj(<<Prop(<<"p">>, Num("1"))>>)),
    ConfigEntry(<<"c", ".", "p">>, Str("1"), Num("1")),
    ConfigEntry(<<"l">>, Str("[1,2]"), Arr(<<Num("1"), Num("2")>>))>>

\* flattenObject of {"c": {"p": 2, "q": 1}, "l": [1]}
JsonShort ==
  <<ConfigEntry(<<"c">>, Str("{ p: 2, q: 1 }"),
                Obj(<<Prop(<<"p">>, Num("2")), Prop(<<"q">>, Num("1"))>>)),
    ConfigEntry(<<"c", ".", "p">>, Str("2"), Num("2")),
    ConfigEntry(<<"c", ".", "q">>, Str("1"), Num("1")),
    ConfigEntry(<<"l">>, Str("[1]"), Arr(<<Num("1")>>))>>

\* flattenObject of {"a/b": 1}
JsonSlash == <<ConfigEntry(<<"a", "/", "b">>, Str("1"), Num("1"))>>

JsonParses == {NotFound, ParseError, Parsed(JsonLong), Parsed(JsonShort), Parsed(JsonSlash)}

Directories == {<<e, j>> : e \in EnvParses, j \in JsonParses}

NoPassword == ""

BackupOptions == [dryRun : BOOLEAN, password : {NoPassword, "correct horse"}]

SaveOptions == [dryRun |-> FALSE, password |-> NoPassword]

\* findConfigFiles and parseConfigFile: the files found, each with its parse
RECURSIVE Discover(_, _)
Discover(directory, i) ==
  IF i > Len(TrackedFiles) THEN <<>>
  ELSE (IF directory[i].found
        THEN <<[file |-> TrackedFiles[i], parsed |-> directory[i]]>>
        ELSE <<>>)
       \o Discover(directory, i + 1)

RecordOf(m, i) == FindRecord(m.files, hashContent(Str(TrackedFiles[i].relativePath)))

VersionsOf(m, i) == IF RecordOf(m, i) = 0 THEN <<>> ELSE m.files[RecordOf(m, i)].versions

NoFilesNever(configFiles) == FALSE

\* configFiles.length === 0
NoFiles(configFiles) == Len(configFiles) = 0

DryRunIgnored(opts) == FALSE

\* if (dryRun): return before saveBackup and ensureGitIgnore
DryRun(opts) == opts.dryRun

\* createBackup from its first line to its return: what it returns, the
\* manifest it held, and the document it wrote (written is FALSE when it
\* wrote nothing)
Run(document, opts, directory, now) ==
  LET configFiles == Discover(directory, 1)
      existingBackup == loadBackup(document)
      loaded == IF existingBackup = NoManifest
                THEN BackupManifest(now, now, <<>>)
                ELSE [existingBackup EXCEPT !.lastModified = now]
      done == ProcessFiles([manifest |-> loaded, changesDetected |-> 0],
                           configFiles, 1, now)
  IN IF NoFiles(configFiles)
     THEN [result |-> BackupResult(FALSE, 0, 0, FALSE, "No config files found"),
           manifest |-> NoManifest, written |-> FALSE, document |-> document,
           appended |-> {}]
     ELSE IF loadBackupThrows(document)
     THEN [result |-> BackupResult(FALSE, 0, 0, FALSE, LoadError(document)),
           manifest |-> NoManifest, written |-> FALSE, document |-> document,
           appended |-> {}]
     ELSE [result |-> BackupResult(TRUE, FilesProcessed(configFiles),
                                   done.changesDetected, Encrypted(opts), ""),
           manifest |-> done.manifest,
           written |-> ~DryRun(opts),
           document |-> IF DryRun(opts) THEN document ELSE Persisted(done.manifest, opts),
           appended |-> {i \in 1..Len(TrackedFiles) :
                           Len(VersionsOf(done.manifest, i)) > Len(VersionsOf(loaded, i))}]

\* a run of createBackup over the directory as it is found
createBackup(opts, directory) ==
  /\ clock < MaxRuns
  /\ \E run \in {Run(disk, opts, directory, clock + 1)} :
       /\ clock' = clock + 1
       /\ fs' = directory
       /\ options' = opts
       /\ result' = run.result
       /\ manifest' = run.manifest
       /\ disk' = run.document
       /\ gitignore' = (gitignore \/ run.written)
       /\ snapshots' =
            [i \in DOMAIN snapshots |->
               IF run.written /\ i \in run.appended
               THEN Append(snapshots[i], CurrentContent(directory[i]))
               ELSE snapshots[i]]
  /\ UNCHANGED diffVars
  /\ UNCHANGED restoreVars
  /\ UNCHANGED raceVars
  /\ UNCHANGED promptVars
  /\ UNCHANGED cryptoVars

-----------------------------------------------------------------------------
(* helpers/backup.ts: restoreFromBackup *)

\* the characters of the paths at hand
Chars(path) ==
  CASE path = ".env" -> <<".", "e", "n", "v">>
    [] path = "config.json" -> <<"c", "o", "n", "f", "i", "g", ".", "j", "s", "o", "n">>
    [] path = "json" -> <<"j", "s", "o", "n">>
    [] path = "other.json" -> <<"o", "t", "h", "e", "r", ".", "j", "s", "o", "n">>
    [] OTHER -> <<>>

\* str.endsWith(suffix)
EndsWith(str, suffix) ==
  /\ Len(suffix) <= Len(str)
  /\ SubSeq(str, Len(str) - Len(suffix) + 1, Len(str)) = suffix

\* the predicate of manifest.files.find
Matches(fileRecord, filePath) ==
  \/ fileRecord.originalPath = filePath
  \/ fileRecord.fileName = filePath
  \/ EndsWith(Chars(fileRecord.originalPath), Chars(filePath))

FindByPath(files, filePath) ==
  LET at == {i \in 1..Len(files) : Matches(files[i], filePath)}
  IN IF at = {} THEN 0 ELSE CHOOSE i \in at : \A j \in at : i <= j

\* the message of the error reconstructAtVersion throws
ReconstructError(fileRecord, targetVersion) ==
  IF targetVersion < 1 \/ targetVersion > Len(fileRecord.versions) THEN "Invalid version"
  ELSE IF \A i \in 1..Len(fileRecord.versions) :
            fileRecord.versions[i].versionNumber # targetVersion
  THEN "Version not found"
  ELSE "No initial content found in version 1"

\* `${value}`
RECURSIVE ToText(_)
ToText(v) ==
  CASE v.t \in {"string", "number", "boolean"} -> <<v.s>>
    [] v.t = "null" -> <<"null">>
    [] v.t = "undefined" -> <<"undefined">>
    [] v.t = "object" -> <<"[object Object]">>
    [] OTHER -> <<[i \in 1..Len(v.c) |->
                     IF v.c[i].v.t \in {"null", "undefined", "hole"} THEN <<>>
                     ELSE ToText(v.c[i].v)]>>

IsOwnProp(p) == p.v.t # "hole"

\* the text written: JSON text, or for an env file one key=value line per own
\* property; Object.entries throws on null and undefined, and writeFile on
\* the undefined that JSON.stringify(undefined) is
contentStr(fileRecord, content) ==
  IF fileRecord.fileType = "env"
  THEN IF content.t \in {"null", "undefined"} THEN [threw |-> TRUE, text |-> <<>>]
       ELSE [threw |-> FALSE,
             text |-> [i \in 1..Len(SelectSeq(content.c, IsOwnProp)) |->
                         LET p == SelectSeq(content.c, IsOwnProp)[i]
                         IN <<p.k, "=", ToText(p.v)>>]]
  ELSE IF IsUndefined(content) THEN [threw |-> TRUE, text |-> <<>>]
  ELSE [threw |-> FALSE, text |-> Stringify(content)]

RestoreResult(success, error, restoredPath) ==
  [success |-> success, error |-> error, restoredPath |-> restoredPath]

Rethrown(message) ==
  [threw |-> TRUE, result |-> RestoreResult(FALSE, message, ""), written |-> <<>>]

\* catch (error): return { success: false, error: error.message }
Caught(message) ==
  [threw |-> FALSE, result |-> RestoreResult(FALSE, message, ""), written |-> <<>>]

\* restoreFromBackup: whether it throws, what it returns, and the file it wrote
restoreFromBackup(document, filePath, version, outputPath) ==
  LET m == loadBackup(document)
      at == FindByPath(m.files, filePath)
      fileRecord == m.files[at]
      content == reconstructAtVersion(fileRecord, version)
      restoredPath == IF outputPath # "" THEN outputPath ELSE fileRecord.originalPath
      str == contentStr(fileRecord, content.value)
  IN IF loadBackupThrows(document) THEN Caught(LoadError(document))
     ELSE IF m = NoManifest
     THEN [threw |-> FALSE, result |-> RestoreResult(FALSE, "Backup file not found", ""),
           written |-> <<>>]
     ELSE IF at = 0
     THEN [threw |-> FALSE, result |-> RestoreResult(FALSE, "File not found in backup", ""),
           written |-> <<>>]
     ELSE IF content.threw THEN Caught(ReconstructError(fileRecord, version))
     ELSE IF str.threw THEN Caught("TypeError")
     ELSE [threw |-> FALSE, result |-> RestoreResult(TRUE, "", restoredPath),
           written |-> <<[path |-> restoredPath, text |-> str.text]>>]

NoRestoration ==
  [filePath |-> "", version |-> 0, threw |-> FALSE,
   result |-> RestoreResult(FALSE, "not run", "")]

NoResult == BackupResult(FALSE, 0, 0, FALSE, "not run")

\* a record that has no version yet (backup.ts: versions: [])
EmptyRecord == BackupFileRecord(TrackedFiles[1], <<>>)

NothingLoaded ==
  /\ opened = [threw |-> FALSE, value |-> NoManifest]
  /\ record = EmptyRecord
  /\ target = 0
  /\ reconstructed = Returned(Undefined)
  /\ restoration = NoRestoration
  /\ output = <<>>

\* the processes that run createBackup, at the same time or one after another
Procs == {1, 2, 3}

NoRun ==
  [result |-> NoResult, manifest |-> NoManifest, written |-> FALSE,
   document |-> NoDocument, appended |-> {}]

NotStarted ==
  [pc |-> "start", directory |-> <<NotFound, NotFound>>, loadedAt |-> 0, savedAt |-> 0,
   held |-> NoRun]

NoSession ==
  [pc |-> "closed", confirm |-> FALSE, password |-> <<>>, entries |-> <<>>,
   returned |-> <<>>]

NothingStarted ==
  /\ runs = [p \in Procs |-> NotStarted]
  /\ session = NoSession

NoEnvelope ==
  [encrypted |-> Bool(FALSE), algorithm |-> "", salt |-> "", iv |-> "",
   authTag |-> [key |-> [password |-> <<>>, salt |-> "", iterations |-> 0],
                iv |-> "", aad |-> "", text |-> NoManifest, bits |-> "", length |-> ""],
   iterations |-> 0,
   data |-> [key |-> [password |-> <<>>, salt |-> "", iterations |-> 0],
             iv |-> "", text |-> NoManifest, bits |-> ""]]

NoOutcome == [threw |-> FALSE, error |-> "", value |-> NoManifest, trace |-> <<>>]

NothingSealed ==
  /\ plain = NoManifest
  /\ secret = <<>>
  /\ envelope = NoEnvelope
  /\ tamper = "none"
  /\ attempt = <<>>
  /\ outcome = NoOutcome
  /\ trace = <<>>
  /\ derived = {}
  /\ rounds = 0

Init ==
  /\ fs = <<NotFound, NotFound>>
  /\ disk = NoDocument
  /\ gitignore = FALSE
  /\ manifest = NoManifest
  /\ options = [dryRun |-> FALSE, password |-> NoPassword]
  /\ result = NoResult
  /\ clock = 0
  /\ snapshots = [i \in 1..Len(TrackedFiles) |-> <<>>]
  /\ oldData = Null
  /\ newData = Null
  /\ patches = [threw |-> FALSE, deltas |-> <<>>]
  /\ patched = Returned(Undefined)
  /\ pc = "idle"
  /\ NothingLoaded
  /\ NothingStarted
  /\ NothingSealed

Next == \E opts \in BackupOptions, directory \in Directories : createBackup(opts, directory)

Spec == Init /\ [][Next]_vars

-----------------------------------------------------------------------------
(* the patch round trip on its own: applyPatches(old, generateJsonPatch(old, new)) *)

JsonValues ==
  {Null, Num("1"), Num("2"), Str("x"),
   Obj(<<>>),
   Obj(<<Prop(<<"a">>, Num("1"))>>),
   Obj(<<Prop(<<"a">>, Num("2")), Prop(<<"b">>, Null)>>),
   Obj(<<Prop(<<"a", "/", "b">>, Num("1"))>>),
   Obj(<<Prop(<<"~">>, Str("x"))>>),
   Obj(<<Prop(<<>>, Num("1"))>>),
   Obj(<<Prop(<<"c">>, Obj(<<Prop(<<"p">>, Num("1"))>>))>>),
   Obj(<<Prop(<<"c">>, Obj(<<Prop(<<"p">>, Num("2")), Prop(<<"q">>, Num("1"))>>))>>),
   Obj(<<Prop(<<"l">>, Arr(<<Num("1"), Num("2")>>))>>),
   Obj(<<Prop(<<"l">>, Arr(<<Num("1")>>))>>),
   Arr(<<Num("1"), Num("2")>>),
   Arr(<<Num("1")>>)}

DiffInit ==
  /\ fs = <<NotFound, NotFound>>
  /\ disk = NoDocument
  /\ gitignore = FALSE
  /\ manifest = NoManifest
  /\ options = [dryRun |-> FALSE, password |-> NoPassword]
  /\ result = NoResult
  /\ clock = 0
  /\ snapshots = [i \in 1..Len(TrackedFiles) |-> <<>>]
  /\ oldData \in JsonValues
  /\ newData \in JsonValues
  /\ patches = [threw |-> FALSE, deltas |-> <<>>]
  /\ patched = Returned(Undefined)
  /\ pc = "start"
  /\ NothingLoaded
  /\ NothingStarted
  /\ NothingSealed

Generate ==
  /\ pc = "start"
  /\ patches' = IF generateJsonPatchThrows(oldData, newData)
                THEN [threw |-> TRUE, deltas |-> <<>>]
                ELSE [threw |-> FALSE, deltas |-> generateJsonPatch(oldData, newData)]
  /\ pc' = "generated"
  /\ UNCHANGED <<oldData, newData, patched>>
  /\ UNCHANGED backupVars
  /\ UNCHANGED restoreVars
  /\ UNCHANGED raceVars
  /\ UNCHANGED promptVars
  /\ UNCHANGED cryptoVars

Apply ==
  /\ pc = "generated"
  /\ patched' = IF patches.threw \/ applyPatchesThrows(oldData) THEN Thrown
                ELSE Returned(applyPatches(oldData, patches.deltas))
  /\ pc' = "applied"
  /\ UNCHANGED <<oldData, newData, patches>>
  /\ UNCHANGED backupVars
  /\ UNCHANGED restoreVars
  /\ UNCHANGED raceVars
  /\ UNCHANGED promptVars
  /\ UNCHANGED cryptoVars

DiffNext == Generate \/ Apply

SpecDiff == DiffInit /\ [][DiffNext]_vars

-----------------------------------------------------------------------------
(* applyPatches on its own, over patch lists of any making *)

MaxPatches == 2

\* the deltas given: add, replace and remove at keys, at nested paths, at an
\* array slot, through a primitive, under an absent key, and at malformed
\* pointers (empty, without its slash, with an empty part)
Deltas ==
  {VersionDelta("add", <<"/", "c", "/", "q", "/", "r">>, Num("9"), Undefined),
   VersionDelta("add", <<"/", "a", "/", "x">>, Num("9"), Undefined),
   VersionDelta("add", <<"/", "a">>, Obj(<<Prop(<<"p">>, Num("1"))>>), Undefined),
   VersionDelta("add", <<"/", "1">>, Num("9"), Undefined),
   VersionDelta("add", <<"/">>, Num("9"), Undefined),
   VersionDelta("replace", <<"/", "c", "/", "p">>, Num("9"), Num("1")),
   VersionDelta("replace", <<"/", "l", "/", "1">>, Num("9"), Num("2")),
   VersionDelta("replace", <<"a">>, Num("9"), Undefined),
   VersionDelta("replace", <<>>, Num("9"), Undefined),
   VersionDelta("remove", <<"/", "a">>, Undefined, Undefined),
   VersionDelta("remove", <<"/", "c", "/", "p">>, Undefined, Undefined),
   VersionDelta("remove", <<"/", "l", "/", "1">>, Undefined, Undefined),
   VersionDelta("remove", <<"/", "x", "/", "y">>, Undefined, Undefined),
   VersionDelta("remove", <<"/", "x", "/", "a">>, Undefined, Undefined),
   VersionDelta("remove", <<"/", "a", "/", "x">>, Undefined, Undefined)}

RECURSIVE DeltaLists(_)
DeltaLists(n) ==
  IF n = 0 THEN {<<>>}
  ELSE DeltaLists(n - 1)
       \cup {Append(list, delta) : list \in {l \in DeltaLists(n - 1) : Len(l) = n - 1},
                                   delta \in Deltas}

ApplyInit ==
  /\ fs = <<NotFound, NotFound>>
  /\ disk = NoDocument
  /\ gitignore = FALSE
  /\ manifest = NoManifest
  /\ options = SaveOptions
  /\ result = NoResult
  /\ clock = 0
  /\ snapshots = [i \in 1..Len(TrackedFiles) |-> <<>>]
  /\ oldData \in JsonValues
  /\ newData = Null
  /\ patches \in {[threw |-> FALSE, deltas |-> list] : list \in DeltaLists(MaxPatches)}
  /\ patched = Returned(Undefined)
  /\ pc = "given"
  /\ NothingLoaded
  /\ NothingStarted
  /\ NothingSealed

\* applyPatches(oldData, patches): oldData is afterwards what the call left in it
ApplyGiven ==
  /\ pc = "given"
  /\ \E call \in {applyPatchesEffect(oldData, patches.deltas)} :
       /\ patched' = IF call.threw THEN Thrown ELSE Returned(call.value)
       /\ oldData' = call.data
  /\ pc' = "patched"
  /\ UNCHANGED <<newData, patches>>
  /\ UNCHANGED backupVars
  /\ UNCHANGED restoreVars
  /\ UNCHANGED raceVars
  /\ UNCHANGED promptVars
  /\ UNCHANGED cryptoVars

ApplyNext == ApplyGiven

SpecApply == ApplyInit /\ [][ApplyNext]_vars

-----------------------------------------------------------------------------
(* loadBackup and reconstructAtVersion over the documents that backup runs   *)
(* leave at the output path, as they are and encrypted                      *)

\* a document that is an EncryptedBackup (encrypted: true) sealing a manifest
EncryptedDocument(m) == [kind |-> "encrypted", data |-> m]

Records(m) == {m.files[f] : f \in 1..Len(m.files)}

Targets == 0..(MaxRuns + 1)

\* the backup file is replaced by its encrypted envelope
EncryptFile ==
  /\ pc = "idle"
  /\ disk.kind = "manifest"
  /\ disk' = EncryptedDocument(disk.data)
  /\ UNCHANGED <<fs, gitignore, manifest, options, result, clock, snapshots>>
  /\ UNCHANGED diffVars
  /\ UNCHANGED restoreVars
  /\ UNCHANGED raceVars
  /\ UNCHANGED promptVars
  /\ UNCHANGED cryptoVars

Load ==
  /\ pc = "idle"
  /\ opened' = IF loadBackupThrows(disk) THEN [threw |-> TRUE, value |-> NoManifest]
                ELSE [threw |-> FALSE, value |-> loadBackup(disk)]
  /\ pc' = "loaded"
  /\ UNCHANGED <<record, target, reconstructed, restoration, output>>
  /\ UNCHANGED raceVars
  /\ UNCHANGED promptVars
  /\ UNCHANGED <<oldData, newData, patches, patched>>
  /\ UNCHANGED backupVars
  /\ UNCHANGED cryptoVars

Reconstruct(fileRecord_, targetVersion_) ==
  /\ pc = "loaded"
  /\ record' = fileRecord_
  /\ target' = targetVersion_
  /\ reconstructed' = reconstructAtVersion(fileRecord_, targetVersion_)
  /\ pc' = "reconstructed"
  /\ UNCHANGED <<opened, restoration, output>>
  /\ UNCHANGED raceVars
  /\ UNCHANGED promptVars
  /\ UNCHANGED <<oldData, newData, patches, patched>>
  /\ UNCHANGED backupVars
  /\ UNCHANGED cryptoVars

\* the paths asked of restoreFromBackup: a path as recorded, the end of one,
\* and one that no record has
FilePaths == {".env", "json", "other.json"}

\* the outputPath argument, '' when it is left out
OutputPaths == {"", "restored.txt"}

\* a call of restoreFromBackup on the backup file as it is
Restore(filePath, version, outputPath) ==
  /\ pc = "idle"
  /\ \E call \in {restoreFromBackup(disk, filePath, version, outputPath)} :
       /\ restoration' = [filePath |-> filePath, version |-> version,
                          threw |-> call.threw, result |-> call.result]
       /\ output' = call.written
  /\ pc' = "restored"
  /\ UNCHANGED <<opened, record, target, reconstructed>>
  /\ UNCHANGED <<oldData, newData, patches, patched>>
  /\ UNCHANGED backupVars
  /\ UNCHANGED cryptoVars
  /\ UNCHANGED raceVars
  /\ UNCHANGED promptVars

\* a document that is not JSON text
GarbageDocument == [kind |-> "garbage", data |-> NoManifest]

\* a file that is not JSON text is put at the output path, where none was
Garble ==
  /\ pc = "idle"
  /\ disk.kind = "absent"
  /\ disk' = GarbageDocument
  /\ UNCHANGED <<fs, gitignore, manifest, options, result, clock, snapshots>>
  /\ UNCHANGED diffVars
  /\ UNCHANGED restoreVars
  /\ UNCHANGED raceVars
  /\ UNCHANGED promptVars
  /\ UNCHANGED cryptoVars

\* records as a hand or another tool may leave them: a second version that
\* carries content, after a first version without content or with content
CorruptRecords ==
  {BackupFileRecord(TrackedFiles[2],
     <<BackupVersion(1, 1, <<>>, first, <<>>),
       BackupVersion(2, 2, <<>>, Obj(<<Prop(<<"a">>, Num("2"))>>),
                     <<<<VersionDelta("add", <<"/", "b">>, Num("1"), Undefined)>>>>)>>) :
     first \in {Undefined, Obj(<<Prop(<<"a">>, Num("1"))>>)}}

RestoreNext ==
  \/ pc = "idle" /\ Next
  \/ EncryptFile
  \/ Garble
  \/ Load
  \/ \E fileRecord_ \in Records(opened.value) \cup {EmptyRecord} \cup CorruptRecords,
        targetVersion_ \in Targets :
       Reconstruct(fileRecord_, targetVersion_)
  \/ \E filePath \in FilePaths, version \in Targets, outputPath \in OutputPaths :
       Restore(filePath, version, outputPath)

SpecRestore == Init /\ [][RestoreNext]_vars

-----------------------------------------------------------------------------
(* processes run createBackup on the same output path at the same time:     *)
(* each awaits loadBackup, then works on the manifest it loaded, then       *)
(* awaits saveBackup; nothing is locked between them                        *)

\* what each process may find in the directory when it parses
RaceDirectories ==
  {<<Parsed(EnvAB), Parsed(JsonLong)>>, <<Parsed(EnvBA), Parsed(JsonShort)>>,
   <<Parsed(EnvAB), NotFound>>, <<NotFound, Parsed(JsonSlash)>>, <<NotFound, NotFound>>}

WriteFileIfAbsent(document, previous) ==
  IF previous.kind = "absent" THEN document ELSE previous

\* writeFile(backupPath, content): the file holds what was written last
WriteFile(document, previous) == document

\* process p runs createBackup from discovery and loadBackup to the end of
\* its loop; a run that is to write nothing returns here
Begin(p, directory) ==
  /\ pc = "idle"
  /\ runs[p].pc = "start"
  /\ \E run \in {Run(disk, SaveOptions, directory, clock + 1)} :
       /\ runs' = [runs EXCEPT ![p] =
                     [pc |-> IF run.written THEN "loaded" ELSE "returned",
                      directory |-> directory, loadedAt |-> clock + 1, savedAt |-> 0,
                      held |-> run]]
       /\ IF run.written
          THEN UNCHANGED <<fs, options, result, manifest>>
          ELSE /\ fs' = directory
               /\ options' = SaveOptions
               /\ result' = run.result
               /\ manifest' = run.manifest
  /\ clock' = clock + 1
  /\ UNCHANGED <<disk, gitignore, snapshots>>
  /\ UNCHANGED diffVars
  /\ UNCHANGED restoreVars
  /\ UNCHANGED cryptoVars
  /\ UNCHANGED promptVars

\* process p runs saveBackup and ensureGitIgnore and returns; snapshots are
\* kept by sequential runs only
Finish(p) ==
  /\ pc = "idle"
  /\ runs[p].pc = "loaded"
  /\ disk' = WriteFile(runs[p].held.document, disk)
  /\ gitignore' = TRUE
  /\ fs' = runs[p].directory
  /\ options' = SaveOptions
  /\ result' = runs[p].held.result
  /\ manifest' = runs[p].held.manifest
  /\ runs' = [runs EXCEPT ![p].pc = "returned", ![p].savedAt = clock + 1]
  /\ clock' = clock + 1
  /\ UNCHANGED snapshots
  /\ UNCHANGED diffVars
  /\ UNCHANGED restoreVars
  /\ UNCHANGED cryptoVars
  /\ UNCHANGED promptVars

RaceNext ==
  \/ \E p \in Procs, directory \in RaceDirectories : Begin(p, directory)
  \/ \E p \in Procs : Finish(p)

SpecRace == Init /\ [][RaceNext]_vars

-----------------------------------------------------------------------------
(* helpers/crypto.ts.  The cipher is ideal: a key stands for what it was     *)
(* derived from, a ciphertext for the key, iv and text it seals, a tag for   *)
(* what it authenticates; decryption succeeds on exactly the untouched       *)
(* ciphertext and tag under the same key and iv.                             *)

ALGORITHM == "aes-256-gcm"

ITERATIONS == 210000

AAD == "configrep-backup"

validatePassword(password) ==
  IF Len(password) = 0 THEN [valid |-> FALSE, error |-> "Password cannot be empty"]
  ELSE IF Len(password) < 8
  THEN [valid |-> FALSE, error |-> "Password must be at least 8 characters long"]
  ELSE [valid |-> TRUE, error |-> ""]

pbkdf2Sync(password, salt, iterations) ==
  [password |-> password, salt |-> salt, iterations |-> iterations]

\* cipher.update(dataStr) + cipher.final()
Ciphertext(key, iv, text) == [key |-> key, iv |-> iv, text |-> text, bits |-> "intact"]

\* cipher.getAuthTag(), of the default length
AuthTag(key, iv, aad, data) ==
  [key |-> key, iv |-> iv, aad |-> aad, text |-> data.text, bits |-> "intact",
   length |-> "full"]

\* the steps of encryptData, none of them a check of the password
EncryptSteps ==
  <<"randomBytes", "randomBytes", "pbkdf2Sync", "createCipheriv", "setAAD",
    "JSON.stringify", "update", "final", "getAuthTag">>

encryptData(data, password, salt, iv) ==
  LET key == pbkdf2Sync(password, salt, ITERATIONS)
      dataStr == ManifestJson(data)
      encrypted == Ciphertext(key, iv, dataStr)
  IN [encrypted |-> Bool(TRUE),
      algorithm |-> ALGORITHM,
      salt |-> salt,
      iv |-> iv,
      authTag |-> AuthTag(key, iv, AAD, encrypted),
      iterations |-> ITERATIONS,
      data |-> encrypted]

FormatCheckedStrictly(encryptedBackup) ==
  encryptedBackup.encrypted # Bool(TRUE) \/ encryptedBackup.algorithm # ALGORITHM

\* !encryptedBackup.encrypted || encryptedBackup.algorithm !== ALGORITHM
InvalidFormat(encryptedBackup) ==
  ~Truthy(encryptedBackup.encrypted) \/ encryptedBackup.algorithm # ALGORITHM

\* decipher.setAuthTag throws on a tag whose length GCM does not allow; the
\* call stands before the try
InvalidTagLength(authTag) == authTag.length # "full"

AuthenticNever(key, iv, aad, data, authTag) == FALSE

\* decipher.final() authenticates the ciphertext and the AAD against the tag
Authentic(key, iv, aad, data, authTag) ==
  /\ data.bits = "intact"
  /\ data.key = key
  /\ data.iv = iv
  /\ authTag = AuthTag(key, iv, aad, data)

\* what decipher.final() throws when authentication fails
FinalError == "Unsupported state or unable to authenticate data"

\* the catch of decryptData: the messages it folds into the generic one
Surfaced(message) ==
  IF message = FinalError THEN "Invalid password or corrupted backup"
  ELSE "Decryption failed"

CryptoThrown(error, steps) ==
  [threw |-> TRUE, error |-> error, value |-> NoManifest, trace |-> steps]

decryptData(encryptedBackup, password) ==
  LET key == pbkdf2Sync(password, encryptedBackup.salt, encryptedBackup.iterations)
      setUp == <<"pbkdf2Sync", "createDecipheriv", "setAAD", "setAuthTag">>
  IN IF InvalidFormat(encryptedBackup)
     THEN CryptoThrown("Invalid encrypted backup format", <<>>)
     ELSE IF InvalidTagLength(encryptedBackup.authTag)
     THEN CryptoThrown("Invalid authentication tag length", setUp)
     ELSE IF ~Authentic(key, encryptedBackup.iv, AAD, encryptedBackup.data,
                        encryptedBackup.authTag)
     THEN CryptoThrown(Surfaced(FinalError), setUp \o <<"update", "final">>)
     ELSE [threw |-> FALSE, error |-> "", value |-> encryptedBackup.data.text,
           trace |-> setUp \o <<"update", "final", "JSON.parse">>]

MaxRounds == 2

\* passwords: empty, shorter than 8, and two of 8 characters
Passwords ==
  {<<>>, <<"a", "b", "c">>,
   <<"p", "a", "s", "s", "w", "o", "r", "d">>,
   <<"P", "a", "s", "s", "w", "o", "r", "d">>}

\* randomBytes
Salts == {"salt1", "salt2"}

Ivs == {"iv1", "iv2"}

\* the manifests a first run holds when it returns
Manifests ==
  {m \in {Run(NoDocument, SaveOptions, d, 1).manifest : d \in Directories} :
     m # NoManifest}

\* what can be changed in an envelope at rest
Tampered(encryptedBackup, change) ==
  CASE change = "data" -> [encryptedBackup EXCEPT !.data.bits = "flipped"]
    [] change = "authTag" -> [encryptedBackup EXCEPT !.authTag.bits = "flipped"]
    [] change = "authTagLength" -> [encryptedBackup EXCEPT !.authTag.length = "invalid"]
    [] change = "algorithm" -> [encryptedBackup EXCEPT !.algorithm = "aes-128-gcm"]
    [] change = "encrypted: false" -> [encryptedBackup EXCEPT !.encrypted = Bool(FALSE)]
    [] change = "encrypted: absent" -> [encryptedBackup EXCEPT !.encrypted = Undefined]
    [] change = "encrypted: 'yes'" -> [encryptedBackup EXCEPT !.encrypted = Str("yes")]

Changes ==
  {"data", "authTag", "authTagLength", "algorithm", "encrypted: false",
   "encrypted: absent", "encrypted: 'yes'"}

CryptoInit ==
  /\ fs = <<NotFound, NotFound>>
  /\ disk = NoDocument
  /\ gitignore = FALSE
  /\ manifest = NoManifest
  /\ options = SaveOptions
  /\ result = NoResult
  /\ clock = 0
  /\ snapshots = [i \in 1..Len(TrackedFiles) |-> <<>>]
  /\ oldData = Null
  /\ newData = Null
  /\ patches = [threw |-> FALSE, deltas |-> <<>>]
  /\ patched = Returned(Undefined)
  /\ pc = "start"
  /\ NothingLoaded
  /\ NothingStarted
  /\ plain \in Manifests
  /\ secret = <<>>
  /\ envelope = NoEnvelope
  /\ tamper = "none"
  /\ attempt = <<>>
  /\ outcome = NoOutcome
  /\ trace = <<>>
  /\ derived = {}
  /\ rounds = 0

\* encryptData on the manifest, or again on what decryptData returned
Encrypt(password, salt, iv) ==
  /\ rounds < MaxRounds
  /\ \/ pc = "start"
     \/ pc = "decrypted" /\ ~outcome.threw
  /\ envelope' = encryptData(IF pc = "start" THEN plain ELSE outcome.value,
                             password, salt, iv)
  /\ secret' = password
  /\ tamper' = "none"
  /\ trace' = EncryptSteps
  /\ derived' = derived \cup {password}
  /\ rounds' = rounds + 1
  /\ pc' = "encrypted"
  /\ UNCHANGED <<plain, attempt, outcome>>
  /\ UNCHANGED <<oldData, newData, patches, patched>>
  /\ UNCHANGED backupVars
  /\ UNCHANGED restoreVars
  /\ UNCHANGED raceVars
  /\ UNCHANGED promptVars

\* the envelope is changed where it is kept
Tamper(change) ==
  /\ pc = "encrypted"
  /\ tamper = "none"
  /\ envelope' = Tampered(envelope, change)
  /\ tamper' = change
  /\ UNCHANGED <<plain, secret, attempt, outcome, trace, derived, rounds>>
  /\ UNCHANGED diffVars
  /\ UNCHANGED backupVars
  /\ UNCHANGED restoreVars
  /\ UNCHANGED raceVars
  /\ UNCHANGED promptVars

Decrypt(password) ==
  /\ pc = "encrypted"
  /\ \E decrypted \in {decryptData(envelope, password)} :
       /\ outcome' = decrypted
       /\ trace' = decrypted.trace
       /\ derived' = IF \E i \in 1..Len(decrypted.trace) : decrypted.trace[i] = "pbkdf2Sync"
                      THEN derived \cup {password} ELSE derived
  /\ attempt' = password
  /\ pc' = "decrypted"
  /\ UNCHANGED <<plain, secret, envelope, tamper, rounds>>
  /\ UNCHANGED <<oldData, newData, patches, patched>>
  /\ UNCHANGED backupVars
  /\ UNCHANGED restoreVars
  /\ UNCHANGED raceVars
  /\ UNCHANGED promptVars

CryptoNext ==
  \/ \E password \in Passwords, salt \in Salts, iv \in Ivs : Encrypt(password, salt, iv)
  \/ \E change \in Changes : Tamper(change)
  \/ \E password \in Passwords : Decrypt(password)

SpecCrypto == CryptoInit /\ [][CryptoNext]_vars

-----------------------------------------------------------------------------
(* helpers/prompt.ts: promptPassword.  What the user types at each prompt   *)
(* is the input; entries keeps the prompts shown and what was typed.        *)

\* the entries a user may make before the dialogue is cut off
MaxEntries == 4

Entry(prompt, input) == [prompt |-> prompt, input |-> input]

\* promptPassword(confirm) at its first prompt
Asking(confirm) ==
  [pc |-> "password", confirm |-> confirm, password |-> <<>>, entries |-> <<>>,
   returned |-> <<>>]

MismatchNever(confirmPassword, password) == FALSE

\* confirmPassword !== password
Mismatch(confirmPassword, password) == confirmPassword # password

PromptInit ==
  /\ fs = <<NotFound, NotFound>>
  /\ disk = NoDocument
  /\ gitignore = FALSE
  /\ manifest = NoManifest
  /\ options = SaveOptions
  /\ result = NoResult
  /\ clock = 0
  /\ snapshots = [i \in 1..Len(TrackedFiles) |-> <<>>]
  /\ oldData = Null
  /\ newData = Null
  /\ patches = [threw |-> FALSE, deltas |-> <<>>]
  /\ patched = Returned(Undefined)
  /\ pc = "prompting"
  /\ NothingLoaded
  /\ NothingSealed
  /\ runs = [p \in Procs |-> NotStarted]
  /\ session \in {Asking(confirm) : confirm \in BOOLEAN}

\* one round of the first loop: 'Enter password:' is answered
EnterPassword(inputPassword) ==
  /\ session.pc = "password"
  /\ Len(session.entries) < MaxEntries
  /\ session' =
       IF ~validatePassword(inputPassword).valid
       THEN [session EXCEPT !.entries = Append(@, Entry("Enter password:", inputPassword))]
       ELSE [session EXCEPT
               !.entries = Append(@, Entry("Enter password:", inputPassword)),
               !.password = inputPassword,
               !.pc = IF session.confirm THEN "confirm" ELSE "returned",
               !.returned = IF session.confirm THEN @ ELSE inputPassword]
  /\ UNCHANGED backupVars
  /\ UNCHANGED diffVars
  /\ UNCHANGED restoreVars
  /\ UNCHANGED cryptoVars
  /\ UNCHANGED raceVars

\* one round of the second loop: 'Confirm password:' is answered
EnterConfirmation(confirmPassword) ==
  /\ session.pc = "confirm"
  /\ Len(session.entries) < MaxEntries
  /\ session' =
       IF Mismatch(confirmPassword, session.password)
       THEN [session EXCEPT !.entries = Append(@, Entry("Confirm password:", confirmPassword))]
       ELSE [session EXCEPT
               !.entries = Append(@, Entry("Confirm password:", confirmPassword)),
               !.pc = "returned",
               !.returned = session.password]
  /\ UNCHANGED backupVars
  /\ UNCHANGED diffVars
  /\ UNCHANGED restoreVars
  /\ UNCHANGED cryptoVars
  /\ UNCHANGED raceVars

PromptNext ==
  \/ \E inputPassword \in Passwords : EnterPassword(inputPassword)
  \/ \E confirmPassword \in Passwords : EnterConfirmation(confirmPassword)

SpecPrompt == PromptInit /\ [][PromptNext]_vars

-----------------------------------------------------------------------------
(* what the claims speak of *)

\* the manifest in a document (none in an absent one)
ManifestIn(document) == document.data

\* the manifest persisted at the output path
Stored == ManifestIn(disk)

Ran == clock >= 1

\* a step of the model is a run of createBackup
RunStep == clock' = clock + 1

IsPrefix(a, b) == Len(a) <= Len(b) /\ SubSeq(b, 1, Len(a)) = a

ParsedFiles(directory) ==
  {i \in 1..Len(TrackedFiles) : directory[i].found /\ ~Skipped(directory[i])}

RECURSIVE SumOver(_, _)
SumOver(f, n) == IF n = 0 THEN 0 ELSE f[n] + SumOver(f, n - 1)

VersionsNumbered(m) ==
  \A f \in 1..Len(m.files) :
    /\ Len(m.files[f].versions) >= 1
    /\ \A i \in 1..Len(m.files[f].versions) : m.files[f].versions[i].versionNumber = i

\* C1: every record of the manifest, as held by a run and as persisted, has a
\* non-empty versions list whose i-th version (from 1) has versionNumber i
C1_VersionsAscendFromOne == VersionsNumbered(Stored) /\ VersionsNumbered(manifest)

C1_Witness ==
  \E f \in 1..Len(Stored.files) :
    /\ Len(Stored.files[f].versions) = 2
    /\ Stored.files[f].versions[2].versionNumber = 2

\* C2: for every persisted record, reconstructing version v returns a value
\* deep-equal to the content the file had at the run that appended version v
C2_ReplayRoundTrip ==
  \A i \in 1..Len(TrackedFiles) :
    \A v \in 1..Len(snapshots[i]) :
      /\ RecordOf(Stored, i) # 0
      /\ ~reconstructAtVersion(Stored.files[RecordOf(Stored, i)], v).threw
      /\ DeepEqual(reconstructAtVersion(Stored.files[RecordOf(Stored, i)], v).value,
                   snapshots[i][v])

\* C3: the stored hash of every version is hashContent of the value that
\* reconstructing that version returns
C3_HashOfReconstructed ==
  \A f \in 1..Len(Stored.files) :
    \A v \in 1..Len(Stored.files[f].versions) :
      /\ ~reconstructAtVersion(Stored.files[f], v).threw
      /\ Stored.files[f].versions[v].hash
           = hashContent(reconstructAtVersion(Stored.files[f], v).value)

\* C4: applying the patch generated from old to new onto old returns a value
\* deep-equal to new
C4_PatchRoundTrip ==
  pc = "applied" => ~patched.threw /\ DeepEqual(patched.value, newData)

RecordsKept(before, after) ==
  \A f \in 1..Len(before.files) :
    /\ f <= Len(after.files)
    /\ after.files[f].id = before.files[f].id
    /\ IsPrefix(before.files[f].versions, after.files[f].versions)

\* C5: across a run every persisted record stays, and the versions it had are
\* an unchanged prefix of the versions it has afterwards
C5_PastVersionsKept == [][RecordsKept(ManifestIn(disk), ManifestIn(disk'))]_vars

C5_Witness ==
  \E f \in 1..Len(Stored.files) :
    /\ Len(Stored.files[f].versions) = 2
    /\ Stored.files[f].versions[1].timestamp < Stored.files[f].versions[2].timestamp

\* the file's hash differs from the hash of the last version loaded for it
Differs(before, parsed) ==
  \/ Len(before) = 0
  \/ before[Len(before)].hash # hashContent(CurrentContent(parsed))

SameLengths(before, after) ==
  /\ Len(after.files) = Len(before.files)
  /\ \A f \in 1..Len(before.files) :
       Len(after.files[f].versions) = Len(before.files[f].versions)

\* C7 as stated: a run right after a run, over unchanged files, detects no
\* change and leaves the length of every versions list as it was
C7_SecondRunIdle ==
  [][(Ran /\ RunStep /\ fs' = fs) =>
       /\ result'.changesDetected = 0
       /\ SameLengths(ManifestIn(disk), ManifestIn(disk'))]_vars

\* C7 amended: the same, when the first of the two runs was not a dry run
C7_SecondRunIdleAfterSave ==
  [][(Ran /\ ~options.dryRun /\ RunStep /\ fs' = fs) =>
       /\ result'.changesDetected = 0
       /\ SameLengths(ManifestIn(disk), ManifestIn(disk'))]_vars

C7_Witness ==
  /\ clock = 2
  /\ result.success
  /\ ~options.dryRun
  /\ result.changesDetected = 0
  /\ ParsedFiles(fs) # {}
  /\ \A f \in 1..Len(Stored.files) : Stored.files[f].versions[1].timestamp = 1
  /\ Len(Stored.files) = Cardinality(ParsedFiles(fs))

OneOfContentAndChanges(m) ==
  \A f \in 1..Len(m.files) :
    \A i \in 1..Len(m.files[f].versions) :
      LET version == m.files[f].versions[i]
      IN IF version.versionNumber = 1
         THEN ~IsUndefined(version.content) /\ Len(version.changes) = 0
         ELSE IsUndefined(version.content) /\ Len(version.changes) = 1

\* C8: version 1 carries a full content and no changes, every later version
\* carries changes and no content
C8_ContentXorChanges == OneOfContentAndChanges(Stored) /\ OneOfContentAndChanges(manifest)

C8_Witness ==
  \E f \in 1..Len(Stored.files) :
    /\ Len(Stored.files[f].versions) = 2
    /\ Len(Stored.files[f].versions[2].changes) = 1
    /\ Len(Stored.files[f].versions[2].changes[1]) >= 1

\* C9: a successful run reports as filesProcessed the number of discovered
\* files that parsed with at least one entry
C9_FilesProcessedCountsParsed ==
  (Ran /\ result.success) => result.filesProcessed = Cardinality(ParsedFiles(fs))

\* C10: a run that saves with a password persists an encrypted envelope and
\* reports encrypted; without a password it persists the plain manifest
C10_PasswordEncrypts ==
  (Ran /\ result.success /\ ~options.dryRun) =>
    IF options.password # NoPassword
    THEN disk.kind = "encrypted" /\ result.encrypted
    ELSE disk.kind = "manifest" /\ ~result.encrypted

\* the versions a run over the directory appends: one for each parsed file
\* that has none or whose hash differs from its last one's
Changed(before, directory) ==
  {i \in ParsedFiles(directory) : Differs(VersionsOf(before, i), directory[i])}

\* C11: a dry run leaves the document at the output path (and .gitignore) as
\* it was, absent if it was absent, and still reports success and the counts
C11_DryRunWritesNothing ==
  [][(RunStep /\ options'.dryRun) =>
       /\ disk' = disk
       /\ gitignore' = gitignore
       /\ Discover(fs', 1) # <<>> =>
            /\ result'.success
            /\ result'.filesProcessed >= 1
            /\ result'.changesDetected
                 = Cardinality(Changed(ManifestIn(disk), fs'))]_vars

C11_Witness ==
  /\ clock = 2
  /\ options.dryRun
  /\ result.success
  /\ result.changesDetected = 1
  /\ disk.kind = "manifest"
  /\ \E i \in ParsedFiles(fs) :
       Len(VersionsOf(manifest, i)) = 2 /\ Len(VersionsOf(Stored, i)) = 1

\* C12: a run that discovers no file returns success = false with the error
\* "No config files found" and leaves the document at the output path as it was
C12_NoFilesReported ==
  [][(RunStep /\ Discover(fs', 1) = <<>>) =>
       /\ ~result'.success
       /\ result'.error = "No config files found"
       /\ disk' = disk
       /\ gitignore' = gitignore]_vars

C12_Witness ==
  /\ clock = 2
  /\ Discover(fs, 1) = <<>>
  /\ result.error = "No config files found"
  /\ disk.kind = "manifest"
  /\ Len(Stored.files) >= 1

\* C13: reconstructAtVersion throws, and returns no value, when the target is
\* below 1 or above the number of versions, or the record has no versions
C13_InvalidVersionThrows ==
  (/\ pc = "reconstructed"
   /\ \/ target < 1
      \/ target > Len(record.versions)
      \/ Len(record.versions) = 0)
  => reconstructed.threw /\ reconstructed.value = Undefined

C13_Witness ==
  /\ pc = "reconstructed"
  /\ Len(record.versions) = 2
  /\ target = 3
  /\ reconstructed.threw

FormatAccepted == ~InvalidFormat(envelope)

\* C14: every decryptData that fails because the password is wrong or the
\* data or the authTag was modified throws the one generic error
C14_AuthFailureGeneric ==
  (/\ pc = "decrypted"
   /\ FormatAccepted
   /\ attempt # secret \/ tamper \in {"data", "authTag", "authTagLength"})
  => outcome.threw /\ outcome.error = "Invalid password or corrupted backup"

\* C15: pbkdf2Sync is never run on a password that validatePassword rejects
C15_NoWeakKeyDerivation == \A password \in derived : validatePassword(password).valid

VersionEqual(a, b) ==
  /\ a.versionNumber = b.versionNumber
  /\ a.timestamp = b.timestamp
  /\ a.hash = b.hash
  /\ DeepEqual(a.content, b.content)
  /\ Len(a.changes) = Len(b.changes)
  /\ \A c \in 1..Len(a.changes) :
       /\ Len(a.changes[c]) = Len(b.changes[c])
       /\ \A i \in 1..Len(a.changes[c]) :
            /\ a.changes[c][i].op = b.changes[c][i].op
            /\ a.changes[c][i].path = b.changes[c][i].path
            /\ DeepEqual(a.changes[c][i].value, b.changes[c][i].value)
            /\ DeepEqual(a.changes[c][i].oldValue, b.changes[c][i].oldValue)

\* toEqual on two manifests
ManifestEqual(a, b) ==
  /\ a.version = b.version
  /\ a.created = b.created
  /\ a.lastModified = b.lastModified
  /\ Len(a.files) = Len(b.files)
  /\ \A f \in 1..Len(a.files) :
       /\ a.files[f].id = b.files[f].id
       /\ a.files[f].originalPath = b.files[f].originalPath
       /\ a.files[f].fileName = b.files[f].fileName
       /\ a.files[f].fileType = b.files[f].fileType
       /\ Len(a.files[f].versions) = Len(b.files[f].versions)
       /\ \A v \in 1..Len(a.files[f].versions) :
            VersionEqual(a.files[f].versions[v], b.files[f].versions[v])

\* C16: decryptData of what encryptData returned, under the same password of
\* 8 characters or more, returns a manifest deep-equal to the one encrypted,
\* also when what it returned is encrypted and decrypted again
C16_DecryptOfEncrypt ==
  (/\ pc = "decrypted"
   /\ tamper = "none"
   /\ attempt = secret
   /\ Len(secret) >= 8)
  => ~outcome.threw /\ ManifestEqual(outcome.value, plain)

C16_Witness ==
  /\ pc = "decrypted"
  /\ rounds = 2
  /\ tamper = "none"
  /\ attempt = secret
  /\ Len(secret) >= 8
  /\ ~outcome.threw
  /\ \E f \in 1..Len(plain.files) :
       plain.files[f].versions[1].content.c # <<>>

\* C17: decryptData throws the format error on an envelope whose encrypted
\* flag is not true or whose algorithm is not aes-256-gcm, before any
\* cryptographic step
C17_FormatCheckedFirst ==
  (pc = "decrypted" /\ FormatCheckedStrictly(envelope))
  => /\ outcome.threw
     /\ outcome.error = "Invalid encrypted backup format"
     /\ trace = <<>>

C20_ApplyNeverThrows == pc = "patched" => ~patched.threw

C20_Witness ==
  /\ pc = "patched"
  /\ ~patched.threw
  /\ Len(patches.deltas) = 2
  /\ PatchBodyThrows(JsonClone(oldData), patches.deltas[1])
  /\ oldData # Null
  /\ ~DeepEqual(patched.value, oldData)

\* the content a file had when its last persisted version was appended
LastContent(i) == snapshots[i][Len(snapshots[i])]

\* same keys and values as at the last version, in another key order
Reordered(i, parsed) ==
  /\ parsed.found /\ ~Skipped(parsed)
  /\ Len(snapshots[i]) >= 1
  /\ DeepEqual(LastContent(i), CurrentContent(parsed))
  /\ LastContent(i) # CurrentContent(parsed)

\* C25: a run over a file whose content has the keys and values of its last
\* version in another key order computes another hash, appends a version to
\* the record and counts it in changesDetected
C25_KeyOrderMakesVersion ==
  [][RunStep => \A i \in 1..Len(TrackedFiles) :
       (Reordered(i, fs'[i]) /\ result'.success)
       => /\ hashContent(CurrentContent(fs'[i])) # hashContent(LastContent(i))
          /\ Len(VersionsOf(manifest', i)) = Len(VersionsOf(Stored, i)) + 1
          /\ result'.changesDetected >= 1]_vars

C25_Witness ==
  /\ clock = 2
  /\ \E i \in 1..Len(TrackedFiles) :
       /\ Len(snapshots[i]) = 2
       /\ DeepEqual(snapshots[i][1], snapshots[i][2])
       /\ snapshots[i][1] # snapshots[i][2]
       /\ Len(VersionsOf(Stored, i)) = 2
       /\ result.changesDetected >= 1

UniqueIds(m) ==
  \A f, g \in 1..Len(m.files) :
    /\ m.files[f].id = hashContent(Str(m.files[f].originalPath))
    /\ m.files[f].id = m.files[g].id => f = g

\* C26: after any sequence of runs no two records of the manifest, as held by
\* a run and as persisted, share an id, and the id of every record is
\* hashContent of its originalPath
C26_IdsUnique == UniqueIds(Stored) /\ UniqueIds(manifest)

C26_Witness ==
  /\ clock = 2
  /\ Len(Stored.files) = 2
  /\ \A f \in 1..2 : Len(Stored.files[f].versions) = 2
  /\ Stored.files[1].id # Stored.files[2].id

\* the file is not discovered, fails to parse or yields no entry
PassedOver(parsed) == ~parsed.found \/ parsed.error \/ Len(parsed.entries) = 0

\* C27: a run creates no record for a file that is not discovered, fails to
\* parse or yields no entry, and leaves the versions of a record that file
\* already has as they were, in the manifest it holds and in the one persisted
C27_SkippedFileUntouched ==
  [][RunStep => \A i \in 1..Len(TrackedFiles) :
       PassedOver(fs'[i])
       => /\ VersionsOf(ManifestIn(disk'), i) = VersionsOf(Stored, i)
          /\ (RecordOf(Stored, i) = 0 => RecordOf(ManifestIn(disk'), i) = 0)
          /\ result'.success
             => /\ VersionsOf(manifest', i) = VersionsOf(Stored, i)
                /\ (RecordOf(Stored, i) = 0 => RecordOf(manifest', i) = 0)]_vars

C27_Witness ==
  /\ clock = 2
  /\ result.success /\ result.changesDetected = 1
  /\ PassedOver(fs[2]) /\ fs[2].found
  /\ Len(VersionsOf(Stored, 2)) = 1
  /\ Len(VersionsOf(Stored, 1)) = 2

\* a part of the path before its last names nothing in data
AbsentSegment(data, parts) ==
  /\ \A i \in 1..Len(parts) : parts[i] # <<>>
  /\ \E i \in 1..(Len(parts) - 1) : IsUndefined(GetPath(data, SubSeq(parts, 1, i)))

\* C23: applyPatches with one remove whose path has an absent intermediate
\* segment returns a value deep-equal to its input: nothing is deleted, at the
\* path or elsewhere
C23_RemoveSkipsAbsent ==
  (/\ pc = "patched"
   /\ Len(patches.deltas) = 1
   /\ patches.deltas[1].op = "remove"
   /\ AbsentSegment(oldData, PathParts(patches.deltas[1].path)))
  => ~patched.threw /\ DeepEqual(patched.value, oldData)

\* the deltas with every oldValue replaced
WithOldValue(deltas, oldValue) ==
  [i \in 1..Len(deltas) |-> [deltas[i] EXCEPT !.oldValue = oldValue]]

\* a record whose first version holds data and whose second holds the deltas
RecordOfDeltas(data, deltas) ==
  BackupFileRecord(TrackedFiles[1],
                   <<BackupVersion(1, 1, hashContent(data), data, <<>>),
                     BackupVersion(2, 2, <<>>, Undefined, <<deltas>>)>>)

\* C28: what applyPatches returns, and what reconstructAtVersion returns for a
\* record holding the deltas, stays deep-equal when every oldValue of the
\* deltas is absent or wrong
C28_OldValueIgnored ==
  pc = "patched" =>
    \A oldValue \in {Undefined, Str("wrong")} :
      LET other == WithOldValue(patches.deltas, oldValue)
      IN /\ DeepEqual(applyPatches(oldData, other), patched.value)
         /\ ~reconstructAtVersion(RecordOfDeltas(oldData, other), 2).threw
         /\ DeepEqual(reconstructAtVersion(RecordOfDeltas(oldData, other), 2).value,
                      reconstructAtVersion(RecordOfDeltas(oldData, patches.deltas), 2).value)

C28_Witness ==
  /\ pc = "patched"
  /\ Len(patches.deltas) = 2
  /\ patches.deltas[1].op = "replace"
  /\ ~IsUndefined(patches.deltas[1].oldValue)
  /\ patches.deltas[2].op = "add"
  /\ ~DeepEqual(patched.value, applyPatches(oldData, <<patches.deltas[2]>>))
  /\ DeepEqual(reconstructAtVersion(RecordOfDeltas(oldData, patches.deltas), 2).value,
               patched.value)

\* no record of the persisted manifest matches the path asked for
NoRecordMatches(filePath) ==
  \A f \in 1..Len(Stored.files) : ~Matches(Stored.files[f], filePath)

\* the version asked for is outside 1..versions.length of the matching record
OutOfRange(filePath, version) ==
  /\ FindByPath(Stored.files, filePath) # 0
  /\ \/ version < 1
     \/ version > Len(Stored.files[FindByPath(Stored.files, filePath)].versions)

\* C21: restoreFromBackup does not throw, and when the backup file is missing,
\* no record matches the path asked for, or the version asked for is out of
\* range, it returns success false with an error and writes no file
C21_RestoreReportsFailure ==
  pc = "restored" =>
    /\ ~restoration.threw
    /\ (\/ disk.kind = "absent"
        \/ disk.kind = "manifest" /\ NoRecordMatches(restoration.filePath)
        \/ disk.kind = "manifest" /\ OutOfRange(restoration.filePath, restoration.version))
       => /\ ~restoration.result.success
          /\ restoration.result.error # ""
          /\ output = <<>>

C21_Witness ==
  /\ pc = "restored"
  /\ disk.kind = "manifest"
  /\ restoration.filePath = "json"
  /\ restoration.version = 3
  /\ OutOfRange(restoration.filePath, restoration.version)
  /\ Len(VersionsOf(Stored, 2)) = 2
  /\ ~restoration.result.success
  /\ restoration.result.error = "Invalid version"

\* versions[0].content with versions[1].changes .. versions[t-1].changes applied
RECURSIVE Folded(_, _)
Folded(versions, t) ==
  IF t = 1 THEN versions[1].content
  ELSE IF Len(versions[t].changes) = 1
  THEN applyPatches(Folded(versions, t - 1), versions[t].changes[1])
  ELSE Folded(versions, t - 1)

\* C24: for a record and a target t in range, reconstructAtVersion throws when
\* versions[0].content is absent, and otherwise returns the value that
\* applying versions[1].changes .. versions[t-1].changes in order to
\* versions[0].content gives
C24_ReconstructIsReplay ==
  (pc = "reconstructed" /\ target >= 1 /\ target <= Len(record.versions))
  => IF IsUndefined(record.versions[1].content)
     THEN reconstructed.threw
     ELSE /\ ~reconstructed.threw
          /\ DeepEqual(reconstructed.value, Folded(record.versions, target))

\* C29: a run that finds an encrypted envelope or text that is not JSON at the
\* output path returns success false with an error and filesProcessed 0, and
\* leaves the document there as it was
C29_UnreadableBackupKept ==
  [][(RunStep /\ disk.kind \in {"encrypted", "garbage"})
     => /\ ~result'.success
        /\ result'.error # ""
        /\ result'.filesProcessed = 0
        /\ disk' = disk]_vars

C29_Witness ==
  /\ clock = 2
  /\ disk.kind = "encrypted"
  /\ ~result.success
  /\ result.error = "Backup is encrypted. Use decryption functionality to load."
  /\ Len(Discover(fs, 1)) = 2

C29_WitnessGarbage ==
  /\ clock = 1
  /\ disk.kind = "garbage"
  /\ ~result.success
  /\ result.error = "Unexpected token in JSON"

\* p and q both saved, p first and q last of all, and q had loaded before p
\* saved
Overlapped(p, q) ==
  /\ runs[p].pc = "returned" /\ runs[p].held.written
  /\ runs[q].pc = "returned" /\ runs[q].held.written
  /\ runs[q].loadedAt < runs[p].savedAt
  /\ runs[p].savedAt < runs[q].savedAt
  /\ \A r \in Procs : runs[r].savedAt <= runs[q].savedAt

\* the version process p appended to the record of file i
AppendedBy(p, i) ==
  VersionsOf(runs[p].held.manifest, i)[Len(VersionsOf(runs[p].held.manifest, i))]

\* C22: when two runs on one output path overlap (the last to save had
\* loaded before the other saved), the manifest persisted is the one the last
\* saver held, and it has none of the versions the other run appended
C22_LostUpdate ==
  \A p, q \in Procs :
    Overlapped(p, q)
    => /\ Stored = ManifestIn(runs[q].held.document)
       /\ \A i \in runs[p].held.appended :
            \A v \in 1..Len(VersionsOf(Stored, i)) :
              VersionsOf(Stored, i)[v].timestamp # AppendedBy(p, i).timestamp

C22_Witness ==
  \E p, q \in Procs :
    /\ Overlapped(p, q)
    /\ runs[p].held.result.success
    /\ runs[p].held.result.changesDetected >= 1
    /\ \E i \in runs[p].held.appended :
         /\ AppendedBy(p, i).versionNumber = 2
         /\ Len(VersionsOf(Stored, i)) = 2
         /\ \A v \in 1..Len(VersionsOf(Stored, i)) :
              VersionsOf(Stored, i)[v].hash # AppendedBy(p, i).hash

\* the prompt that follows the k-th entry: the prompt of the next entry, or
\* the one the dialogue stands at
PromptAfter(k) ==
  IF k < Len(session.entries) THEN session.entries[k + 1].prompt
  ELSE CASE session.pc = "password" -> "Enter password:"
         [] session.pc = "confirm" -> "Confirm password:"
         [] OTHER -> "none"

\* C30: promptPassword returns only a string of at least 8 characters, with
\* confirm only after a confirmation entry equal to it; an invalid entry is
\* followed by the password prompt, a confirmation that does not match by
\* the confirmation prompt, and no password prompt follows a confirmation
\* prompt
C30_PromptReturnsValidated ==
  /\ session.pc = "returned"
     => /\ Len(session.returned) >= 8
        /\ session.entries # <<>>
        /\ session.entries[Len(session.entries)].input = session.returned
        /\ session.confirm
           => /\ session.entries[Len(session.entries)].prompt = "Confirm password:"
              /\ \E k \in 1..(Len(session.entries) - 1) :
                   /\ session.entries[k].prompt = "Enter password:"
                   /\ session.entries[k].input = session.returned
  /\ \A k \in 1..Len(session.entries) :
       LET entry == session.entries[k]
       IN /\ (entry.prompt = "Enter password:" /\ Len(entry.input) < 8)
             => PromptAfter(k) = "Enter password:"
          /\ (entry.prompt = "Confirm password:" /\ entry.input # session.password)
             => PromptAfter(k) = "Confirm password:"
          /\ entry.prompt = "Confirm password:"
             => PromptAfter(k) # "Enter password:"

C30_Witness ==
  /\ session.pc = "returned"
  /\ session.confirm
  /\ Len(session.entries) = 4
  /\ Len(session.entries[1].input) < 8
  /\ session.entries[3].prompt = "Confirm password:"
  /\ session.entries[3].input # session.returned

====
